---- MODULE Spec2Model ----
(***************************************************************************)
(* Model of linky/core/youtube.py: the YoutubeData client.                 *)
(*                                                                         *)
(* The client holds one piece of mutable state, the subscriptions cache.   *)
(* Every public method is one action.  What the remote platform answers    *)
(* (the subscriptions.list result, the HTTP responses, the caption         *)
(* fragments) is an input of the action, drawn from small sets.            *)
(*                                                                         *)
(* Python values are tagged records [t |-> type, v |-> payload], so that   *)
(* values of different Python types are different values, as in Python.    *)
(* A call ends in Return(value) or in Raise(exception).                    *)
(***************************************************************************)
EXTENDS Integers, Sequences, FiniteSets, TLC

VARIABLES
    subscriptions,  \* self.subscriptions: PyNone or the subscriptions.list result
    listSent,       \* number of subscriptions.list requests the last call executed
    lastOp,         \* the method the caller invoked last
    req,            \* that call's inputs: arguments and what the platform answered
    sent,           \* the HTTP GET requests that call issued, in order
    printed,        \* the lines that call printed
    ret             \* that call's outcome

vars == <<subscriptions, listSent, lastOp, req, sent, printed, ret>>

-----------------------------------------------------------------------------
(* Bounds of the model *)

MaxSubs == 2        \* subscription items in one subscriptions.list result
MaxItems == 2       \* items in one HTTP response
MaxFragments == 2   \* caption fragments of one transcript
MaxLen == 3         \* largest maxLength argument
MaxDays == 1        \* largest days argument

(* Program constants *)

HTTP_OK == 200
SearchMaxResults == 25
DescriptionsMaxResults == 50
CommentsMaxResults == 100
ListMaxResults == 10

-----------------------------------------------------------------------------
(* Python values *)

PyNone == [t |-> "None", v |-> <<>>]
PyStr(s) == [t |-> "str", v |-> s]
PyInt(n) == [t |-> "int", v |-> n]
PyList(s) == [t |-> "list", v |-> s]
PyTuple(s) == [t |-> "tuple", v |-> s]
PyDict(f) == [t |-> "dict", v |-> f]

IsNone(x) == x.t = "None"

Return(x) == [kind |-> "return", value |-> x]
Raise(e) == [kind |-> "raise", value |-> [t |-> "exception", v |-> e]]

Returned(o) == o.kind = "return"
Raised(o, e) == o.kind = "raise" /\ o.value.v = e

\* Python truth value of an optional int argument: None and 0 are false.
Truthy(x) == IF x.t = "None" THEN FALSE ELSE x.v # 0

\* Equality of two tagged values: the same type and the same payload.
PyEq(a, b) == a.t = b.t /\ a.v = b.v

EmptyDict == <<>>

\* Equality of two dicts whose values are tagged values.
DictEq(d1, d2) == DOMAIN d1 = DOMAIN d2 /\ \A k \in DOMAIN d1 : PyEq(d1[k], d2[k])

\* d[k] = v
DictSet(d, k, v) == [x \in (DOMAIN d) \cup {k} |-> IF x = k THEN v ELSE d[x]]

\* d.get(k)
DictGet(d, k) == IF k \in DOMAIN d THEN PyStr(d[k]) ELSE PyNone

Min(a, b) == IF a <= b THEN a ELSE b
Max(a, b) == IF a >= b THEN a ELSE b

\* All sequences over S of length at most n.
SeqUpTo(S, n) == UNION {[1..k -> S] : k \in 0..n}

-----------------------------------------------------------------------------
(* What the platform can answer *)

ChannelIdSet == {"c1", "c2"}
SubscriberIdSet == {"u1", "c1"}
TitleOf == [c \in ChannelIdSet |-> IF c = "c1" THEN "A" ELSE "B"]

\* One item of a subscriptions.list result.  snippet.channelId is the channel
\* of the subscriber, snippet.resourceId.channelId the subscribed channel.
SubscriptionItems(u) ==
    { [snippet |-> [title |-> TitleOf[c], description |-> "about " \o TitleOf[c],
                    channelId |-> u, resourceId |-> [channelId |-> c]]] :
        c \in ChannelIdSet }

\* The platform lists a subscribed channel once.
DistinctChannels(items) ==
    \A i, j \in 1..Len(items) :
        items[i].snippet.resourceId.channelId = items[j].snippet.resourceId.channelId
            => i = j

ListResponses ==
    UNION { { PyDict([items |-> s]) :
                s \in {x \in SeqUpTo(SubscriptionItems(u), Min(MaxSubs, ListMaxResults)) :
                         DistinctChannels(x)} } : u \in SubscriberIdSet }

StatusCodes == {HTTP_OK, 403, 404}

\* An HTTP response: a status and a JSON body (a dict that may lack "items").
\* A response that is not a success carries no items.
HttpResponses(ItemSet, cap) ==
    { [status_code |-> HTTP_OK, json |-> [items |-> s]] :
        s \in SeqUpTo(ItemSet, Min(MaxItems, cap)) }
    \cup { [status_code |-> HTTP_OK, json |-> EmptyDict] }
    \cup { [status_code |-> c, json |-> EmptyDict] : c \in StatusCodes \ {HTTP_OK} }

VideoSet ==
    { [id |-> [videoId |-> "v1"],
       snippet |-> [title |-> "t1", description |-> "d1", publishedAt |-> 99]],
      [id |-> [videoId |-> "v2"],
       snippet |-> [title |-> "t2", description |-> "d2", publishedAt |-> 90]] }

CommentSet ==
    { [snippet |-> [topLevelComment |-> [snippet |-> [textDisplay |-> c]]]] :
        c \in {"hi", "yo"} }

\* statistics dicts: each count is present or absent.
StatisticsSet ==
    { EmptyDict, [likeCount |-> "42"], [dislikeCount |-> "7"],
      [likeCount |-> "42", dislikeCount |-> "7"] }

StatisticsItems == { [statistics |-> st] : st \in StatisticsSet }

\* Caption fragments: {text, start, duration}; only text is read.
FragmentSet == { [text |-> x] : x \in {"", "a", "bc"} }

\* Readings of the UTC clock, in days; the requests of one call are made
\* within the same day.
ClockReadings == {100, 101}

-----------------------------------------------------------------------------
(* The subscriptions cache *)

\* A guard that never finds the cache filled.
CacheAlwaysEmpty(s) == TRUE

\* if self.subscriptions is None
CacheEmpty(s) == IsNone(s)

\* get_subscriptions: one subscriptions.list request, its result stored.
Fetch(resp) ==
    /\ subscriptions' = resp
    /\ listSent' = 1

\* The request made before the guard is looked at, its result dropped when
\* the cache is filled.
EnsureSubscriptionsEager(resp) ==
    IF CacheEmpty(subscriptions)
    THEN Fetch(resp)
    ELSE /\ listSent' = 1
         /\ UNCHANGED subscriptions

\* if self.subscriptions is None: self.get_subscriptions()
EnsureSubscriptions(resp) ==
    IF CacheEmpty(subscriptions)
    THEN Fetch(resp)
    ELSE /\ listSent' = 0
         /\ UNCHANGED subscriptions

\* The subscriptions.list results the call may receive: one is received only
\* when a request is made.
Answers == IF CacheEmpty(subscriptions) THEN ListResponses ELSE {PyNone}

Items(s) == s.v.items

\* The inputs of a call that takes no argument: the subscriptions.list
\* result it received, PyNone when it made no request.
Received(resp) == [answer |-> resp]

get_subscriptions ==
    \E resp \in ListResponses :
        /\ Fetch(resp)
        /\ lastOp' = "get_subscriptions"
        /\ req' = Received(resp)
        /\ sent' = <<>>
        /\ printed' = <<>>
        /\ ret' = Return(PyNone)

-----------------------------------------------------------------------------
(* Derived accessors *)

\* A first-element accessor that answers empty fields for an empty list.
MetadataOrNone(items) ==
    IF Len(items) = 0
    THEN Return(PyTuple(<<"", "", "">>))
    ELSE Return(PyTuple(<<items[1].snippet.title, items[1].snippet.description,
                          items[1].snippet.resourceId.channelId>>))

\* items[0] fields, or IndexError when there is no item
Metadata(items) ==
    IF Len(items) = 0
    THEN Raise("IndexError")
    ELSE Return(PyTuple(<<items[1].snippet.title, items[1].snippet.description,
                          items[1].snippet.resourceId.channelId>>))

RECURSIVE ChannelDescription(_)
\* {item.snippet.channelId: item.snippet.description for item in items}
ChannelDescription(items) ==
    IF Len(items) = 0 THEN EmptyDict
    ELSE LET n == Len(items)
         IN DictSet(ChannelDescription(SubSeq(items, 1, n - 1)),
                    items[n].snippet.channelId, items[n].snippet.description)

\* [item.snippet.title for item in items]
ChannelTitles(items) == [i \in 1..Len(items) |-> items[i].snippet.title]

\* [item.snippet.resourceId.channelId for item in items]
ChannelIds(items) == [i \in 1..Len(items) |-> items[i].snippet.resourceId.channelId]

Accessor(name, resp, outcome) ==
    /\ lastOp' = name
    /\ req' = Received(resp)
    /\ sent' = <<>>
    /\ printed' = <<>>
    /\ ret' = outcome

get_metadata ==
    \E resp \in Answers :
        /\ EnsureSubscriptions(resp)
        /\ Accessor("get_metadata", resp, Metadata(Items(subscriptions')))

get_items ==
    \E resp \in Answers :
        /\ EnsureSubscriptions(resp)
        /\ Accessor("get_items", resp, Return(PyList(Items(subscriptions'))))

get_channel_description ==
    \E resp \in Answers :
        /\ EnsureSubscriptions(resp)
        /\ Accessor("get_channel_description", resp,
                    Return(PyDict(ChannelDescription(Items(subscriptions')))))

get_channel_titles ==
    \E resp \in Answers :
        /\ EnsureSubscriptions(resp)
        /\ Accessor("get_channel_titles", resp,
                    Return(PyList(ChannelTitles(Items(subscriptions')))))

get_channel_ids ==
    \E resp \in Answers :
        /\ EnsureSubscriptions(resp)
        /\ Accessor("get_channel_ids", resp,
                    Return(PyList(ChannelIds(Items(subscriptions')))))

-----------------------------------------------------------------------------
(* Recent videos of the subscribed channels *)

\* date_x_days_ago.isoformat("T") + "Z", with time counted in days
FormatDate(t) == ToString(t) \o "Z"

\* The search URL's query parameters.
SearchRequest(channelId, now, days) ==
    [endpoint |-> "search", part |-> "snippet", channelId |-> channelId,
     publishedAfter |-> FormatDate(now - days), maxResults |-> SearchMaxResults,
     order |-> "date", type |-> "video"]

\* response_data.get("items", [])
ItemsOf(json) == IF "items" \in DOMAIN json THEN json.items ELSE <<>>

VideoSummary(item) ==
    [videoId |-> item.id.videoId, title |-> item.snippet.title,
     description |-> item.snippet.description,
     publishedAt |-> item.snippet.publishedAt]

FailureMessage(status) ==
    "Failed to retrieve videos, status code: " \o ToString(status)

\* A failed request stored as an empty sequence.
ChannelEntryEmptyOnFailure(response) ==
    IF response.status_code = HTTP_OK
    THEN LET items == ItemsOf(response.json)
         IN PyList([i \in 1..Len(items) |-> VideoSummary(items[i])])
    ELSE PyList(<<>>)

\* The value stored for one channel, from the response to its request.
ChannelEntry(response) ==
    IF response.status_code = HTTP_OK
    THEN LET items == ItemsOf(response.json)
         IN PyList([i \in 1..Len(items) |-> VideoSummary(items[i])])
    ELSE PyStr(FailureMessage(response.status_code))

RECURSIVE AllVideos(_, _)
\* The loop over channelIds, filling all_videos_simple.
AllVideos(channelIds, responses) ==
    IF Len(channelIds) = 0 THEN EmptyDict
    ELSE LET n == Len(channelIds)
         IN DictSet(AllVideos(SubSeq(channelIds, 1, n - 1), SubSeq(responses, 1, n - 1)),
                    channelIds[n], ChannelEntry(responses[n]))

\* The platform lists a video once in a search result.
DistinctVideos(json) ==
    \A i, j \in 1..Len(ItemsOf(json)) :
        ItemsOf(json)[i].id.videoId = ItemsOf(json)[j].id.videoId => i = j

SearchResponses(cap) == {r \in HttpResponses(VideoSet, cap) : DistinctVideos(r.json)}

get_videos_published_in_last_days ==
    \E resp \in Answers, days \in 0..MaxDays, now \in ClockReadings :
        /\ EnsureSubscriptions(resp)
        /\ LET channelIds == ChannelIds(Items(subscriptions'))
           IN \E responses \in [1..Len(channelIds) -> SearchResponses(SearchMaxResults)] :
                /\ lastOp' = "get_videos_published_in_last_days"
                /\ req' = [answer |-> resp, days |-> days, now |-> now,
                           responses |-> responses]
                /\ sent' = [i \in 1..Len(channelIds) |->
                              SearchRequest(channelIds[i], now, days)]
                /\ printed' = <<>>
                /\ ret' = Return(PyDict(AllVideos(channelIds, responses)))

-----------------------------------------------------------------------------
(* Transcript *)

RECURSIVE Join(_, _)
\* sep.join(parts)
Join(sep, parts) ==
    IF Len(parts) = 0 THEN ""
    ELSE IF Len(parts) = 1 THEN parts[1]
    ELSE parts[1] \o sep \o Join(sep, Tail(parts))

\* s[:n]
SlicePrefix(s, n) ==
    IF n >= 0 THEN SubSeq(s, 1, Min(n, Len(s)))
    ELSE SubSeq(s, 1, Max(0, Len(s) + n))

Transcript(srt, maxLength) ==
    LET transcript == Join(" ", [i \in 1..Len(srt) |-> srt[i].text])
    IN IF Truthy(maxLength) THEN SlicePrefix(transcript, maxLength.v) ELSE transcript

MaxLengthArgs == {PyNone} \cup {PyInt(n) : n \in (0 - 1)..MaxLen}

get_video_transcript ==
    /\ \E maxLength \in MaxLengthArgs :
        \/ \E srt \in SeqUpTo(FragmentSet, MaxFragments) :
              /\ req' = [maxLength |-> maxLength, available |-> TRUE, srt |-> srt]
              /\ ret' = Return(PyStr(Transcript(srt, maxLength)))
        \/ /\ req' = [maxLength |-> maxLength, available |-> FALSE, srt |-> <<>>]
           /\ ret' = Raise("TranscriptsDisabled")
    /\ lastOp' = "get_video_transcript"
    /\ sent' = <<>>
    /\ printed' = <<>>
    /\ listSent' = 0
    /\ UNCHANGED subscriptions

-----------------------------------------------------------------------------
(* Descriptions, comments and statistics *)

RECURSIVE VideoDescriptions(_)
\* video_descriptions[item.id.videoId] = item.snippet.description, in item order
VideoDescriptions(items) ==
    IF Len(items) = 0 THEN EmptyDict
    ELSE LET n == Len(items)
         IN DictSet(VideoDescriptions(SubSeq(items, 1, n - 1)),
                    items[n].id.videoId, items[n].snippet.description)

AllVideoDescription(response) ==
    IF response.status_code = HTTP_OK
    THEN PyDict(VideoDescriptions(ItemsOf(response.json)))
    ELSE PyDict(EmptyDict)

AllVideoDescriptionPrinted(response) ==
    IF response.status_code = HTTP_OK
    THEN <<>>
    ELSE <<FailureMessage(response.status_code)>>

get_all_video_descrition ==
    \E channelId \in ChannelIdSet,
       response \in SearchResponses(DescriptionsMaxResults) :
        /\ lastOp' = "get_all_video_descrition"
        /\ req' = [channelId |-> channelId, response |-> response]
        /\ sent' = << [endpoint |-> "search", part |-> "snippet",
                       channelId |-> channelId,
                       maxResults |-> DescriptionsMaxResults,
                       order |-> "date", type |-> "video"] >>
        /\ printed' = AllVideoDescriptionPrinted(response)
        /\ ret' = Return(AllVideoDescription(response))
        /\ listSent' = 0
        /\ UNCHANGED subscriptions

VideoIdSet == {"v1", "v2"}

VideoComments(response) ==
    IF response.status_code = HTTP_OK
    THEN LET items == ItemsOf(response.json)
         IN PyList([i \in 1..Len(items) |->
                      items[i].snippet.topLevelComment.snippet.textDisplay])
    ELSE PyList(<<>>)

get_video_comments ==
    \E video_id \in VideoIdSet,
       response \in HttpResponses(CommentSet, CommentsMaxResults) :
        /\ lastOp' = "get_video_comments"
        /\ req' = [video_id |-> video_id, response |-> response]
        /\ sent' = << [endpoint |-> "commentThreads", part |-> "snippet",
                       videoId |-> video_id,
                       maxResults |-> CommentsMaxResults] >>
        /\ printed' = <<>>
        /\ ret' = Return(VideoComments(response))
        /\ listSent' = 0
        /\ UNCHANGED subscriptions

\* A mapping that leaves out the counts the statistics lack.
LikesOfPresentOnly(data) ==
    LET key == [likes |-> "likeCount", dislikes |-> "dislikeCount"]
    IN PyDict([k \in {x \in {"likes", "dislikes"} : key[x] \in DOMAIN data}
                 |-> PyStr(data[key[k]])])

\* {"likes": data.get("likeCount"), "dislikes": data.get("dislikeCount")}
LikesOf(data) ==
    PyDict([likes |-> DictGet(data, "likeCount"),
            dislikes |-> DictGet(data, "dislikeCount")])

\* A failure reported with absent counts.
UnknownLikesAsNone == PyDict([likes |-> PyNone, dislikes |-> PyNone])

\* {"likes": "unknown", "dislikes": "unknown"}
UnknownLikes == PyDict([likes |-> PyStr("unknown"), dislikes |-> PyStr("unknown")])

\* response.json()["items"][0]["statistics"] fails when the body has no
\* "items" or an empty "items".
VideoLikesDislikes(response) ==
    IF response.status_code = HTTP_OK
    THEN IF "items" \notin DOMAIN response.json THEN Raise("KeyError")
         ELSE IF Len(response.json.items) = 0 THEN Raise("IndexError")
         ELSE Return(LikesOf(response.json.items[1].statistics))
    ELSE Return(UnknownLikes)

get_video_likes_dislikes ==
    \E video_id \in VideoIdSet,
       response \in HttpResponses(StatisticsItems, 1) :
        /\ lastOp' = "get_video_likes_dislikes"
        /\ req' = [video_id |-> video_id, response |-> response]
        /\ sent' = << [endpoint |-> "videos", part |-> "statistics",
                       id |-> video_id] >>
        /\ printed' = <<>>
        /\ ret' = VideoLikesDislikes(response)
        /\ listSent' = 0
        /\ UNCHANGED subscriptions

-----------------------------------------------------------------------------
(* The client *)

\* __init__: the cache starts empty.
Init ==
    /\ subscriptions = PyNone
    /\ listSent = 0
    /\ lastOp = "__init__"
    /\ req = Received(PyNone)
    /\ sent = <<>>
    /\ printed = <<>>
    /\ ret = Return(PyNone)

Next ==
    \/ get_subscriptions
    \/ get_metadata
    \/ get_items
    \/ get_channel_description
    \/ get_channel_titles
    \/ get_channel_ids
    \/ get_videos_published_in_last_days
    \/ get_video_transcript
    \/ get_all_video_descrition
    \/ get_video_comments
    \/ get_video_likes_dislikes

Spec == Init /\ [][Next]_vars

-----------------------------------------------------------------------------
(* Properties *)

DerivedAccessors ==
    {"get_metadata", "get_items", "get_channel_description",
     "get_channel_titles", "get_channel_ids"}

CacheReaders == DerivedAccessors \cup {"get_videos_published_in_last_days"}

Populated == ~IsNone(subscriptions)

Range(f) == {f[i] : i \in DOMAIN f}

Projection(op, items, outcome) ==
    CASE op = "get_metadata" ->
           IF Len(items) = 0 THEN Raised(outcome, "IndexError")
           ELSE /\ Returned(outcome)
                /\ outcome.value.v = <<items[1].snippet.title,
                                       items[1].snippet.description,
                                       items[1].snippet.resourceId.channelId>>
      [] op = "get_items" ->
           Returned(outcome) /\ outcome.value.v = items
      [] op = "get_channel_description" ->
           /\ Returned(outcome)
           /\ DOMAIN outcome.value.v = {items[i].snippet.channelId : i \in 1..Len(items)}
      [] op = "get_channel_titles" ->
           /\ Returned(outcome)
           /\ Len(outcome.value.v) = Len(items)
           /\ \A i \in 1..Len(items) : outcome.value.v[i] = items[i].snippet.title
      [] op = "get_channel_ids" ->
           /\ Returned(outcome)
           /\ Len(outcome.value.v) = Len(items)
           /\ \A i \in 1..Len(items) :
                 outcome.value.v[i] = items[i].snippet.resourceId.channelId

\* C9: a derived accessor called on the empty cache issues exactly one
\* subscriptions.list request, stores the result in the cache and projects
\* its fields from that result; called on a populated cache it issues no
\* request and leaves the cache unchanged.
C9_LazyPopulation ==
    [][lastOp' \in DerivedAccessors =>
         IF IsNone(subscriptions)
         THEN /\ listSent' = 1
              /\ PyEq(subscriptions', req'.answer)
              /\ Projection(lastOp', Items(req'.answer), ret')
         ELSE /\ listSent' = 0
              /\ PyEq(subscriptions', subscriptions)
              /\ Projection(lastOp', Items(subscriptions), ret')]_vars

\* A derived accessor has populated the cache and projected a non-empty list.
C9_Witness ==
    /\ lastOp = "get_channel_titles"
    /\ listSent = 1
    /\ Populated
    /\ Returned(ret)
    /\ Len(ret.value.v) = 2

\* C6: with an empty subscription list in the cache, get_metadata fails with
\* IndexError, while get_channel_ids, get_items and get_channel_titles return
\* an empty sequence and get_channel_description an empty mapping.
C6_EmptySubscriptions ==
    (lastOp \in DerivedAccessors /\ Populated /\ Len(Items(subscriptions)) = 0)
        => IF lastOp = "get_metadata"
           THEN Raised(ret, "IndexError")
           ELSE /\ Returned(ret)
                /\ ret.value.t = (IF lastOp = "get_channel_description"
                                  THEN "dict" ELSE "list")
                /\ ret.value.v = <<>>

\* get_metadata has failed on an empty subscription list.
C6_Witness ==
    /\ lastOp = "get_metadata"
    /\ Populated
    /\ Len(Items(subscriptions)) = 0
    /\ Raised(ret, "IndexError")

\* C2, as claimed: on one cached snapshot the keys of get_channel_description
\* are exactly the identifiers get_channel_ids returns, and get_channel_titles
\* returns one title per identifier of get_channel_ids, in item order.
C2_ConsistentChannels ==
    (lastOp \in {"get_channel_description", "get_channel_titles"} /\ Populated)
        => LET items == Items(subscriptions)
               ids == ChannelIds(items)
           IN IF lastOp = "get_channel_description"
              THEN DOMAIN ret.value.v = Range(ids)
              ELSE /\ Len(ret.value.v) = Len(ids)
                   /\ \A i \in 1..Len(ids) :
                         /\ items[i].snippet.resourceId.channelId = ids[i]
                         /\ ret.value.v[i] = items[i].snippet.title

\* C4: get_videos_published_in_last_days issues one search request per
\* subscribed channel id, in subscription order, and returns a mapping with
\* one key per subscribed channel id; the value of a key is the sequence of
\* video summaries of its response's items, in response order, for status
\* 200 and the failure string with the status otherwise, whatever the other
\* channels' requests returned.
C4_PerChannelEntries ==
    lastOp = "get_videos_published_in_last_days"
        => LET items == Items(subscriptions)
               n == Len(items)
               id(i) == items[i].snippet.resourceId.channelId
               d == ret.value.v
           IN /\ Returned(ret)
              /\ ret.value.t = "dict"
              /\ Len(sent) = n
              /\ \A i \in 1..n : sent[i].endpoint = "search" /\ sent[i].channelId = id(i)
              /\ DOMAIN d = {id(i) : i \in 1..n}
              /\ \A i \in 1..n :
                    LET r == req.responses[i]
                        found == IF "items" \in DOMAIN r.json THEN r.json.items ELSE <<>>
                    IN IF r.status_code = 200
                       THEN /\ d[id(i)].t = "list"
                            /\ Len(d[id(i)].v) = Len(found)
                            /\ \A k \in 1..Len(found) :
                                  d[id(i)].v[k] =
                                    [videoId |-> found[k].id.videoId,
                                     title |-> found[k].snippet.title,
                                     description |-> found[k].snippet.description,
                                     publishedAt |-> found[k].snippet.publishedAt]
                       ELSE /\ d[id(i)].t = "str"
                            /\ d[id(i)].v = "Failed to retrieve videos, status code: "
                                               \o ToString(r.status_code)

\* One channel's request failed with 403 and the other's returned two videos.
C4_Witness ==
    /\ lastOp = "get_videos_published_in_last_days"
    /\ Len(sent) = 2
    /\ req.responses[1].status_code = 403
    /\ req.responses[2].status_code = 200
    /\ ret.value.v[sent[1].channelId].t = "str"
    /\ ret.value.v[sent[1].channelId].v = "Failed to retrieve videos, status code: 403"
    /\ ret.value.v[sent[2].channelId].t = "list"
    /\ Len(ret.value.v[sent[2].channelId].v) = 2

\* C3, as claimed: for N >= 0 get_video_transcript(id, maxLength=N) returns
\* the length-N prefix of the fragments' texts joined by single spaces, so at
\* most N characters and nothing for N = 0; with maxLength=None it returns
\* the whole concatenation.
C3_TranscriptPrefix ==
    (lastOp = "get_video_transcript" /\ req.available)
        => LET full == Join(" ", [i \in 1..Len(req.srt) |-> req.srt[i].text])
               N == req.maxLength.v
           IN /\ Returned(ret)
              /\ ret.value.t = "str"
              /\ IF IsNone(req.maxLength)
                 THEN ret.value.v = full
                 ELSE N >= 0 =>
                        /\ Len(ret.value.v) <= N
                        /\ ret.value.v = SubSeq(full, 1, Min(N, Len(full)))

\* C5: get_video_likes_dislikes returns a mapping with both keys "likes"
\* and "dislikes": for a status-200 response with a statistics item each
\* value is the item's count when it is present and None when it is absent;
\* for every other status both values are the string "unknown".
C5_LikesDislikes ==
    lastOp = "get_video_likes_dislikes"
        => LET r == req.response
           IN IF r.status_code # 200
              THEN /\ Returned(ret)
                   /\ ret.value.t = "dict"
                   /\ DOMAIN ret.value.v = {"likes", "dislikes"}
                   /\ \A k \in {"likes", "dislikes"} :
                         ret.value.v[k].t = "str" /\ ret.value.v[k].v = "unknown"
              ELSE ("items" \in DOMAIN r.json /\ Len(ItemsOf(r.json)) > 0)
                     => LET st == r.json.items[1].statistics
                            count(k) == IF k = "likes" THEN "likeCount"
                                        ELSE "dislikeCount"
                        IN /\ Returned(ret)
                           /\ ret.value.t = "dict"
                           /\ DOMAIN ret.value.v = {"likes", "dislikes"}
                           /\ \A k \in {"likes", "dislikes"} :
                                 IF count(k) \in DOMAIN st
                                 THEN /\ ret.value.v[k].t = "str"
                                      /\ ret.value.v[k].v = st[count(k)]
                                 ELSE ret.value.v[k].t = "None"

\* Statistics {likeCount: "42"} have given {"likes": "42", "dislikes": None}.
C5_Witness ==
    /\ lastOp = "get_video_likes_dislikes"
    /\ req.response.status_code = 200
    /\ "items" \in DOMAIN req.response.json
    /\ Len(ItemsOf(req.response.json)) = 1
    /\ DOMAIN req.response.json.items[1].statistics = {"likeCount"}
    /\ Returned(ret)
    /\ ret.value.v["likes"].t = "str"
    /\ ret.value.v["likes"].v = "42"
    /\ ret.value.v["dislikes"].t = "None"

\* C10, as claimed: get_video_likes_dislikes returns a mapping and does not
\* fail, whatever the HTTP response; stated here for the responses whose body
\* carries an items array, the empty array (an unknown video id) included.
C10_LikesNeverFails ==
    (lastOp = "get_video_likes_dislikes" /\ "items" \in DOMAIN req.response.json)
        => (Returned(ret) /\ ret.value.t = "dict")

\* The responses that stand for "the request succeeded and found no data".
NoData(op) ==
    IF op = "get_video_likes_dislikes"
    THEN [status_code |-> 200, json |-> [items |-> << [statistics |-> EmptyDict] >>]]
    ELSE [status_code |-> 200, json |-> [items |-> <<>>]]

\* A failed request's value differs from the value of a request without data.
Distinguishable(op) ==
    CASE op = "get_videos_published_in_last_days" ->
           \A i \in 1..Len(sent) :
              req.responses[i].status_code # 200
                => ~PyEq(ret.value.v[sent[i].channelId], ChannelEntry(NoData(op)))
      [] op = "get_all_video_descrition" ->
           req.response.status_code # 200
             => ~PyEq(ret.value, AllVideoDescription(NoData(op)))
      [] op = "get_video_comments" ->
           req.response.status_code # 200
             => ~PyEq(ret.value, VideoComments(NoData(op)))
      [] op = "get_video_likes_dislikes" ->
           req.response.status_code # 200
             => ~DictEq(ret.value.v, VideoLikesDislikes(NoData(op)).value.v)

\* A failed request's value equals the value of a request without data.
Indistinguishable(op) ==
    CASE op = "get_all_video_descrition" ->
           req.response.status_code # 200
             => PyEq(ret.value, AllVideoDescription(NoData(op)))
      [] op = "get_video_comments" ->
           req.response.status_code # 200
             => PyEq(ret.value, VideoComments(NoData(op)))

HttpReaders ==
    {"get_videos_published_in_last_days", "get_all_video_descrition",
     "get_video_comments", "get_video_likes_dislikes"}

\* C7, as claimed: for each of the four HTTP-backed reads the value
\* returned for a non-200 status differs from the value returned for status
\* 200 without data.
C7_FailureDistinguishable ==
    lastOp \in HttpReaders => Distinguishable(lastOp)

\* C7, amended: the value for a non-200 status differs from the value for
\* status 200 without data in get_videos_published_in_last_days (per channel
\* key) and in get_video_likes_dislikes; in get_all_video_descrition and in
\* get_video_comments the two values are equal (an empty mapping, an empty
\* sequence), and get_all_video_descrition prints the failure.
C7_FailureDistinguishableInTwo ==
    /\ lastOp \in {"get_videos_published_in_last_days", "get_video_likes_dislikes"}
         => Distinguishable(lastOp)
    /\ lastOp \in {"get_all_video_descrition", "get_video_comments"}
         => Indistinguishable(lastOp)
    /\ (lastOp = "get_all_video_descrition" /\ req.response.status_code # 200)
         => Len(printed) = 1

\* get_video_comments has returned the empty sequence for a 403.
C7_Witness ==
    /\ lastOp = "get_video_comments"
    /\ req.response.status_code = 403
    /\ Returned(ret)
    /\ ret.value.t = "list"
    /\ ret.value.v = <<>>

====
